---- MODULE Spec2Model ----
(***************************************************************************)
(* A model of the in-place construction library `init` and of the thin     *)
(* containers of the `thin` crate built on it.                             *)
(*                                                                         *)
(*   SpecW  the incremental slice writers (SliceWriter, PinSliceWriter)    *)
(*          driven through their safe methods                              *)
(*   SpecC  the slice constructors CopyArgs, CloneArgs and IterInit, which *)
(*          drive a writer element by element                              *)
(*   SpecL  the slice move / take / clone constructors                     *)
(*   SpecV  the thin vectors (ThinVec, ThinPinVec)                         *)
(*   SpecH  the owning handles Init and PinInit                            *)
(*   SpecB  slices of scalars built on the heap (boxed, pin_boxed,         *)
(*          ThinBox::new)                                                  *)
(*   SpecP  the layout providers of WithHeader and Mutex                   *)
(*   SpecT  the thin pointer RawThinPtr                                    *)
(*   SpecS  try_stack_init and try_stack_pin_init                          *)
(*   SpecM  the macros try_init_struct! and try_pin_init_struct!           *)
(*                                                                         *)
(* Element types are not zero sized unless said otherwise.                 *)
(***************************************************************************)
EXTENDS Integers, Sequences, FiniteSets, TLC

VARIABLES
    writer,     \* the SliceWriter / PinSliceWriter: [pin, len, init, iter]
    mem,        \* the destination slice: slot index -> Raw or a value
    log,        \* every element construction attempted: <<[slot, val, res]>>
    teardowns,  \* slot index -> number of times the slot was dropped in place
    result,     \* how the writer (or the constructor run) ended
    handle,     \* the Init<[T]> / PinInit<[T]> handed out: [start, len], or NoHandle
    run,        \* the slice constructor being run (SpecC, SpecL), or NoRun
    vec         \* the thin vector (SpecV), or NoVec

vars == <<writer, mem, log, teardowns, result, handle, run, vec>>

(***************************************************************************)
(* Bounds of the model.                                                    *)
(***************************************************************************)
MaxLen == 3
NumVals == 2

Vals == 1..NumVals
\* the values of T::Error an element constructor may return
Errs == {"E1", "E2"}
Raw == 0
NoError == [tag |-> "none"]
NoHandle == [start |-> -1, len |-> -1]
NoRun == [kind |-> "none"]
NoVec == [kind |-> "none"]

Slots(n) == 0..(n - 1)

\* what an element constructor can do: return Ok, return Err, or unwind
Fallible == {"ok"} \cup Errs \cup {"panic"}
Infallible == {"ok", "panic"}

(***************************************************************************)
(* ptr/iter.rs: RawIter over a slice of non zero sized elements.  `start`  *)
(* is the current element (as an index from the base of the slice), `end`  *)
(* is one past the last element.                                           *)
(***************************************************************************)
RawIterNew(n) == [start |-> 0, end |-> n]

RawIterLen(it) == it.end - it.start

\* the element handed out is `it.start`; the iterator moves one element on
next_unchecked(it) == [it EXCEPT !.start = @ + 1]

\* remaining(): the slice (pointer, length) not yet handed out
remaining(it) == [ptr |-> it.start, len |-> RawIterLen(it)]

(***************************************************************************)
(* slice_writer.rs / pin_slice_writer.rs                                   *)
(***************************************************************************)
SliceWriterNew(pin, n) ==
    [pin |-> pin, len |-> n, init |-> 0, iter |-> RawIterNew(n)]

remaining_len(w) == RawIterLen(w.iter)

is_complete(w) == remaining_len(w) = 0

is_poisoned(w) == w.len - RawIterLen(w.iter) # w.init

\* get_remaining without the rewind to the start of the slice
get_remaining_NoRewind(w) ==
    [start |-> remaining(w.iter).ptr, len |-> w.init]

\* the slice [start_ptr, start_ptr + init) the writer claims to have built
get_remaining(w) ==
    LET rem       == remaining(w.iter)
        start_ptr == rem.ptr - (w.len - RawIterLen(w.iter))
    IN  [start |-> start_ptr, len |-> w.init]

\* what the safe write methods assert before they write
CanWrite(w) ==
    IF w.pin THEN ~is_complete(w) /\ ~is_poisoned(w)
             ELSE ~is_complete(w)

\* ptr.rs: Init::get, element i of the slice behind a handle (a read outside
\* the destination slice finds no value of it)
Get(h, i) == IF h.start + i \in DOMAIN mem THEN mem[h.start + i] ELSE Raw

\* ptr.rs: Drop for Init<[T]> (and pin_ptr.rs: Drop for PinInit) drops every
\* element of the slice in place: the teardown counts and the memory after it
TornDown(t, h) ==
    [i \in DOMAIN t |-> IF h.start <= i /\ i < h.start + h.len THEN t[i] + 1 ELSE t[i]]

Dropped(m, h) ==
    [i \in DOMAIN m |-> IF h.start <= i /\ i < h.start + h.len THEN Raw ELSE m[i]]

(***************************************************************************)
(* try_init_unchecked / try_pin_init_unchecked (and init_unchecked, which  *)
(* is the same with a constructor that cannot return an error): take the   *)
(* next slot from the iterator, run the element constructor on it, and     *)
(* count the element only when the constructor returned successfully.      *)
(* `r` is what the element constructor did: "ok", an error, or a panic.    *)
(***************************************************************************)
\* the writer after the write: a mutant that counts the element before the
\* constructor's result is known
AfterWrite_CountFirst(w, r) ==
    [w EXCEPT !.iter = next_unchecked(@), !.init = @ + 1]

AfterWrite(w, r) ==
    IF r = "ok" THEN [w EXCEPT !.iter = next_unchecked(@), !.init = @ + 1]
                ELSE [w EXCEPT !.iter = next_unchecked(@)]

\* the destination after the write (a failed constructor leaves no value)
MemAfterWrite(m, w, v, r) ==
    IF r = "ok" THEN [m EXCEPT ![w.iter.start] = v] ELSE m

Logged(w, v, r) == Append(log, [slot |-> w.iter.start, val |-> v, res |-> r])

try_init_unchecked(v, r) ==
    /\ log' = Logged(writer, v, r)
    /\ mem' = MemAfterWrite(mem, writer, v, r)
    /\ writer' = AfterWrite(writer, r)

\* Drop for SliceWriter / PinSliceWriter
WriterDrop ==
    /\ teardowns' = TornDown(teardowns, get_remaining(writer))
    /\ mem' = Dropped(mem, get_remaining(writer))

\* a write that fails inside a constructor run: the error (or the unwinding)
\* leaves the function and the writer, a local of it, is dropped
try_init_unchecked_or_return(v, r) ==
    LET w == AfterWrite(writer, r)
        m == MemAfterWrite(mem, writer, v, r)
    IN  /\ log' = Logged(writer, v, r)
        /\ writer' = w
        /\ IF r = "ok"
              THEN /\ mem' = m
                   /\ teardowns' = teardowns
              ELSE /\ mem' = Dropped(m, get_remaining(w))
                   /\ teardowns' = TornDown(teardowns, get_remaining(w))

(***************************************************************************)
(* The writer's safe methods, as a caller may use them (SpecW).            *)
(***************************************************************************)
\* init / pin_init: the constructor cannot fail, it can only unwind
WInit(v, r) ==
    /\ result = "live"
    /\ CanWrite(writer)
    /\ try_init_unchecked(v, r)
    /\ UNCHANGED <<teardowns, result, handle, run, vec>>

\* try_init / try_pin_init
WTryInit(v, r) ==
    /\ result = "live"
    /\ CanWrite(writer)
    /\ try_init_unchecked(v, r)
    /\ UNCHANGED <<teardowns, result, handle, run, vec>>

\* finish_unchecked, reached with a complete writer: the unpinned writer
\* checks for poisoning and panics (the unwinding drops the writer); the
\* pinned writer does not check
finish_unchecked ==
    IF ~writer.pin /\ is_poisoned(writer)
       THEN /\ WriterDrop
            /\ result' = "panic"
            /\ handle' = handle
       ELSE /\ handle' = get_remaining(writer)
            /\ result' = "Some"
            /\ UNCHANGED <<mem, teardowns>>

\* try_finish: Some(handle) when complete, else None (and the writer, taken
\* by value, is dropped)
WTryFinish ==
    /\ result = "live"
    /\ IF is_complete(writer)
          THEN finish_unchecked
          ELSE /\ WriterDrop
               /\ result' = "None"
               /\ handle' = handle
    /\ UNCHANGED <<writer, log, run, vec>>

\* finish: try_finish().unwrap_or_else(|| incomplete_error())
WFinish ==
    /\ result = "live"
    /\ IF is_complete(writer)
          THEN finish_unchecked
          ELSE /\ WriterDrop
               /\ result' = "panic"
               /\ handle' = handle
    /\ UNCHANGED <<writer, log, run, vec>>

\* the writer goes out of scope unfinished
WDrop ==
    /\ result = "live"
    /\ WriterDrop
    /\ result' = "dropped"
    /\ UNCHANGED <<writer, log, handle, run, vec>>

\* a raw region of n slots and the writer record over it
RegionInit(pin, n) ==
    /\ writer = SliceWriterNew(pin, n)
    /\ mem = [i \in Slots(n) |-> Raw]
    /\ log = <<>>
    /\ teardowns = [i \in Slots(n) |-> 0]
    /\ handle = NoHandle

WriterInit(pin, n) ==
    /\ RegionInit(pin, n)
    /\ result = "live"

InitW ==
    /\ \E pin \in BOOLEAN, n \in 0..MaxLen : WriterInit(pin, n)
    /\ run = NoRun
    /\ vec = NoVec

NextW ==
    \/ \E v \in Vals, r \in Fallible : WTryInit(v, r)
    \/ \E v \in Vals, r \in Infallible : WInit(v, r)
    \/ WTryFinish
    \/ WFinish
    \/ WDrop

SpecW == InitW /\ [][NextW]_vars

(***************************************************************************)
(* slice/try_ctor.rs, slice/try_pin_ctor.rs: the slice constructors        *)
(* CopyArgs, CloneArgs and IterInit (SpecC).  A run is                     *)
(*   [kind, pin, cheap, arg, src, items, take, pulled, error]              *)
(* `arg` is the argument copied or cloned for every element, `src` the     *)
(* items the iterator holds at the call, `items` those it still holds,     *)
(* `take` the count left in the Take adaptor, `pulled` the number of items *)
(* taken out of the iterator.                                              *)
(***************************************************************************)
\* the count given to Iterator::take: a mutant reading the wrong field
TakeCount_Init(w) == w.init

\* args.take(writer.remaining_len())
TakeCount(w) == remaining_len(w)

\* Take::next returns None: the count is used up or the iterator is empty
TakeDone(r) == r.take = 0 \/ r.items = <<>>

\* how a write ends the run: it goes on, returns the element's error
\* (wrapped in InitError by IterInit), or unwinds
RunAfterWrite(r) ==
    IF r \in Errs
       THEN [run EXCEPT !.error =
                [tag |-> IF run.kind = "IterInit" THEN "InitError" ELSE "T::Error",
                 e   |-> r]]
       ELSE run

ResultAfterWrite(r) ==
    IF r = "ok" THEN "live" ELSE IF r = "panic" THEN "panic" ELSE "Err"

\* CopyArgs: while !writer.is_complete() { writer.try_init_unchecked(args)? }
CCopyStep(r) ==
    /\ run.kind = "CopyArgs"
    /\ result = "live"
    /\ ~is_complete(writer)
    /\ try_init_unchecked_or_return(run.arg, r)
    /\ run' = RunAfterWrite(r)
    /\ result' = ResultAfterWrite(r)
    /\ UNCHANGED <<handle, vec>>

\* CopyArgs: Ok(writer.finish_unchecked())
CCopyFinish ==
    /\ run.kind = "CopyArgs"
    /\ result = "live"
    /\ is_complete(writer)
    /\ finish_unchecked
    /\ UNCHANGED <<writer, log, run, vec>>

\* CloneArgs: the same loop when cloning the argument is cheap, else a loop
\* on remaining_len() that calls the safe try_init and gives the last
\* element the argument itself
CCloneStep(r) ==
    /\ run.kind = "CloneArgs"
    /\ result = "live"
    /\ IF run.cheap THEN ~is_complete(writer)
                    ELSE remaining_len(writer) # 0 /\ CanWrite(writer)
    /\ try_init_unchecked_or_return(run.arg, r)
    /\ run' = RunAfterWrite(r)
    /\ result' = ResultAfterWrite(r)
    /\ UNCHANGED <<handle, vec>>

\* CloneArgs: Ok(writer.finish())
CCloneFinish ==
    /\ run.kind = "CloneArgs"
    /\ result = "live"
    /\ is_complete(writer)
    /\ finish_unchecked
    /\ UNCHANGED <<writer, log, run, vec>>

\* IterInit: one turn of try_for_each over args.take(..)
CIterStep(r) ==
    /\ run.kind = "IterInit"
    /\ result = "live"
    /\ ~TakeDone(run)
    /\ try_init_unchecked_or_return(Head(run.items), r)
    /\ run' = [RunAfterWrite(r) EXCEPT !.items = Tail(@), !.take = @ - 1,
                                       !.pulled = @ + 1]
    /\ result' = ResultAfterWrite(r)
    /\ UNCHANGED <<handle, vec>>

\* IterInit: writer.try_finish().ok_or(IterInitError::NotEnoughItems)
CIterEnd ==
    /\ run.kind = "IterInit"
    /\ result = "live"
    /\ TakeDone(run)
    /\ IF is_complete(writer)
          THEN /\ finish_unchecked
               /\ run' = run
          ELSE /\ WriterDrop
               /\ result' = "Err"
               /\ run' = [run EXCEPT !.error = [tag |-> "NotEnoughItems"]]
               /\ handle' = handle
    /\ UNCHANGED <<writer, log, vec>>

MaxItems == MaxLen + 1

Items == UNION {[1..k -> Vals] : k \in 0..MaxItems}

CtorRun(kind, cheap, arg, src, n) ==
    [kind |-> kind, cheap |-> cheap, arg |-> arg, src |-> src, items |-> src,
     take |-> TakeCount(SliceWriterNew(FALSE, n)), pulled |-> 0, error |-> NoError]

InitC ==
    /\ \E pin \in BOOLEAN, n \in 0..MaxLen :
          /\ WriterInit(pin, n)
          /\ \/ \E arg \in Vals : run = CtorRun("CopyArgs", TRUE, arg, <<>>, n)
             \/ \E arg \in Vals, cheap \in BOOLEAN :
                   run = CtorRun("CloneArgs", cheap, arg, <<>>, n)
             \/ \E src \in Items : run = CtorRun("IterInit", FALSE, 1, src, n)
    /\ vec = NoVec

NextC ==
    \/ \E r \in Fallible : CCopyStep(r)
    \/ CCopyFinish
    \/ \E r \in Fallible : CCloneStep(r)
    \/ CCloneFinish
    \/ \E r \in Fallible : CIterStep(r)
    \/ CIterEnd

SpecC == InitC /\ [][NextC]_vars

(***************************************************************************)
(* slice.rs, pin_slice.rs: move, take and clone construction of a slice    *)
(* from a source slice (SpecL).  A run is                                  *)
(*   [kind, flags, src, items, how, error]                                 *)
(* `flags` are the element type's IS_MOVE_TRIVIAL, IS_TAKE_TRIVIAL and     *)
(* IS_CLONE_TRIVIAL, `src` the source slice, `items` the source elements   *)
(* not yet visited, `how` the path taken.  Until the writer is created the *)
(* writer record stands for the destination region: its len is             *)
(* uninit.len() and its pin tells the pinned constructors from the others. *)
(***************************************************************************)
Kinds == {"move", "take", "clone"}

Flags == [Kinds -> BOOLEAN]

\* a length test that only rejects a source that is too short
LengthMismatch_TooShort(n, m) == n > m

\* if uninit.len() != p.len()
LengthMismatch(n, m) == n # m

\* length_error(expected, found)
length_error(expected, found) ==
    [tag |-> "length_error", expected |-> expected, found |-> found]

\* copy_from_slice_failed(my_len, init_len) of Uninit::copy_from_slice_unchecked
copy_from_slice_failed(my_len, init_len) ==
    [tag |-> "copy_from_slice_failed", expected |-> my_len, found |-> init_len]

\* the flag each constructor reads before it copies the bytes in bulk
TrivialFlag(kind, pin) == IF pin /\ kind = "clone" THEN "take" ELSE kind

\* the call: length check, then the bulk copy or a writer over the region
LCall ==
    /\ run.kind \in Kinds
    /\ result = "called"
    /\ LET n == writer.len
           m == Len(run.src)
       IN  IF LengthMismatch(n, m)
              THEN /\ result' = "panic"
                   /\ run' = [run EXCEPT !.error = length_error(n, m)]
                   /\ UNCHANGED <<mem, handle>>
              ELSE IF run.flags[TrivialFlag(run.kind, writer.pin)]
                      THEN IF n # m
                              THEN /\ result' = "panic"
                                   /\ run' = [run EXCEPT
                                                !.error = copy_from_slice_failed(n, m),
                                                !.how = "bulk"]
                                   /\ UNCHANGED <<mem, handle>>
                              ELSE /\ mem' = [i \in Slots(n) |-> run.src[i + 1]]
                                   /\ handle' = [start |-> 0, len |-> n]
                                   /\ result' = "Some"
                                   /\ run' = [run EXCEPT !.how = "bulk", !.items = <<>>]
                      ELSE /\ result' = "live"
                           /\ run' = [run EXCEPT !.how = "each"]
                           /\ UNCHANGED <<mem, handle>>
    /\ UNCHANGED <<writer, log, teardowns, vec>>

\* for source in p { writer.init_unchecked(source) }
LStep(r) ==
    /\ run.kind \in Kinds
    /\ result = "live"
    /\ run.items # <<>>
    /\ try_init_unchecked_or_return(Head(run.items), r)
    /\ run' = [run EXCEPT !.items = Tail(@)]
    /\ result' = ResultAfterWrite(r)
    /\ UNCHANGED <<handle, vec>>

\* writer.finish_unchecked()
LFinish ==
    /\ run.kind \in Kinds
    /\ result = "live"
    /\ run.items = <<>>
    /\ finish_unchecked
    /\ UNCHANGED <<writer, log, run, vec>>

InitL ==
    /\ \E pin \in BOOLEAN, n \in 0..MaxLen : RegionInit(pin, n)
    /\ result = "called"
    /\ \E kind \in Kinds, flags \in Flags, src \in Items :
          run = [kind |-> kind, flags |-> flags, src |-> src, items |-> src,
                 how |-> "none", error |-> NoError]
    /\ vec = NoVec

NextL ==
    \/ LCall
    \/ \E r \in Infallible : LStep(r)
    \/ LFinish

SpecL == InitL /\ [][NextL]_vars

(***************************************************************************)
(* thin/src/vec.rs, thin/src/vec/iter.rs, thin/src/pin_vec.rs: ThinVec and *)
(* ThinPinVec (SpecV).  The vector is                                      *)
(*   [kind, T, trivial, debug, cap, len, drain]                            *)
(* `T` gives the element's size and alignment, `trivial` is                *)
(* T::IS_MOVE_TRIVIAL, `debug` says whether debug assertions are compiled  *)
(* in, `cap` and `len` are the two header words, `drain` the live Drain    *)
(* borrowing the vector, if any.  `mem` holds the element storage, `log`   *)
(* the values pushed so far while nothing but emplace has been called.     *)
(* Moving an element is taken to succeed; the element constructor given to *)
(* emplace may fail.  A step whose behaviour the language leaves undefined *)
(* (a write outside the allocation, a write to the static empty block)     *)
(* ends the run with result "UB": nothing is claimed about what follows.   *)
(* No step of ThinVec depends on the element's size or on debug            *)
(* assertions, so its runs start with one value of each.                   *)
(***************************************************************************)
MaxVecLen == 5
MaxRequest == 2
MaxSetLen == 3
MaxCap == 8

\* the values an element can hold
Elems == {1, 2}

ElemTypes == {[size |-> 0, align |-> 1], [size |-> 1, align |-> 1], [size |-> 8, align |-> 8]}

\* usize::MAX, on a word narrow enough to enumerate
usize_MAX == 255

\* capacity(): usize::MAX for a zero-sized T, else the header word
capacity(v) == IF v.T.size = 0 THEN usize_MAX ELSE v.cap

\* the vector points at the static EMPTY block
OnSentinel(v) == v.cap = 0

Max(a, b) == IF a >= b THEN a ELSE b

\* let min_capacity = 4
min_capacity == 4

\* Layout::new::<[usize; 2]>()
prefix_size == 16

prefix_align == 8

\* Layout::pad_to_align
pad_to_align(size, align) == ((size + align - 1) \div align) * align

NoDrain == [active |-> FALSE, front |-> 0, back |-> 0, tail_offset |-> 0, tail_len |-> 0]

\* ThinVec::new / ThinPinVec::new / with_capacity
VecNew(kind, T, trivial, debug, c) ==
    [kind |-> kind, T |-> T, trivial |-> trivial, debug |-> debug,
     cap |-> c,
     len |-> IF kind = "ThinPinVec" /\ T.size = 0 /\ c = 0 THEN usize_MAX ELSE 0,
     drain |-> NoDrain]

Fresh(c) == [i \in Slots(c) |-> Raw]

\* realloc: the bytes of the old block are kept
Regrown(m, c) == [i \in Slots(c) |-> IF i \in DOMAIN m THEN m[i] ELSE Raw]

\* the elements [0, len) moved one by one into a fresh block
Moved(m, len, c) == [i \in Slots(c) |-> IF i < len /\ i \in DOMAIN m THEN m[i] ELSE Raw]

\* ptr::copy of n elements from src to dst inside the storage
Copied(m, dst, src, n) ==
    [i \in DOMAIN m |->
        IF dst <= i /\ i < dst + n
           THEN IF src + (i - dst) \in DOMAIN m THEN m[src + (i - dst)] ELSE Raw
           ELSE m[i]]

\* storage past the length holds nothing the vector owns
Trimmed(m, len) == [i \in DOMAIN m |-> IF i < len THEN m[i] ELSE Raw]

\* the n elements of the storage from slot `from` on
Segment(m, from, n) ==
    [i \in 1..n |-> IF from + i - 1 \in DOMAIN m THEN m[from + i - 1] ELSE Raw]

\* as_slice: slice::from_raw_parts(as_ptr(), len())
as_slice(v, m) == Segment(m, 0, v.len)

Initialized(sq) == \A i \in DOMAIN sq : sq[i] # Raw

\* what a growth step did: the path taken, how often each element went
\* through its move constructor, how often the old block was released and
\* how many of its elements the old vector tore down
NoGrowth == [path |-> "none", moves |-> <<>>, released |-> 0, torn |-> 0]

\* reserve_first: core_ext::write overwrites the vector without dropping it
FirstGrowth == [path |-> "first", moves |-> <<>>, released |-> 0, torn |-> 0]

\* realloc hands the old block to the allocator
ReallocGrowth == [path |-> "realloc", moves |-> <<>>, released |-> 0, torn |-> 0]

\* Drop of a vector seen as a whole
VecDropEffect(v) ==
    IF v.T.size # 0 /\ v.cap = 0
       THEN [torn |-> 0, freed |-> 0]
       ELSE [torn |-> v.len, freed |-> 1]

\* a take_items that leaves the length in place
TakenLen_Kept(v) == v.len

\* the length the old vector is left with: drain(..) and take_items set 0
TakenLen(v) == 0

\* reserve_inner_move / reserve_move: every element is handed to
\* emplace_unchecked once, then `*self = vec` drops the old vector
MoveGrowth(v) ==
    LET d == VecDropEffect([v EXCEPT !.len = TakenLen(v)]) IN
    [path |-> "move", moves |-> [i \in 1..v.len |-> 1],
     released |-> d.freed, torn |-> d.torn]

\* a growth policy that never grows
new_capacity_Same(c, additional) == c

\* vec.rs new_capacity
new_capacity(c, additional) ==
    Max(Max(c + additional, c * 2), min_capacity)

\* ThinVec::reserve_inner: reserve_first, reserve_inner_realloc or
\* reserve_inner_move
ThinVecReserveInner(v, m, additional) ==
    IF v.T.size = 0
       THEN [v |-> v, m |-> m, out |-> "panic", growth |-> NoGrowth]
    ELSE IF v.cap = 0
       THEN [v |-> [v EXCEPT !.cap = additional], m |-> Fresh(additional), out |-> "ok",
             growth |-> FirstGrowth]
       ELSE LET c == new_capacity(v.cap, additional) IN
            IF v.trivial
               THEN [v |-> [v EXCEPT !.cap = c], m |-> Regrown(m, c), out |-> "ok",
                     growth |-> ReallocGrowth]
               ELSE [v |-> [v EXCEPT !.cap = c], m |-> Moved(m, v.len, c), out |-> "ok",
                     growth |-> MoveGrowth(v)]

\* pin_vec.rs reserve_inner: the capacity asked for
PinNewCapacity(v, additional) ==
    Max(Max(v.cap * 2, min_capacity), v.len + additional)

\* pin_vec.rs reserve_realloc: the capacity read back from the padded layout
ReallocCapacity(T, nc) ==
    (pad_to_align(prefix_size + T.size * nc, Max(prefix_align, T.align)) - prefix_size)
        \div T.size

\* reserve_realloc: debug_assert!(new_capacity >= capacity)
CapacityAsserted(T, nc) == nc >= ReallocCapacity(T, nc)

\* reserve_inner hands the request to reserve_realloc
ReallocCalled(v) ==
    /\ v.kind = "ThinPinVec"
    /\ v.T.size # 0
    /\ v.cap # 0
    /\ v.len = 0 \/ v.trivial

\* what the condition of the assertion in reserve_realloc evaluated to in a
\* call that went through reserve_inner (`inner`), "none" when reserve_realloc
\* was not reached
Asserted(v, additional, inner) ==
    IF inner /\ ReallocCalled(v)
       THEN IF CapacityAsserted(v.T, PinNewCapacity(v, additional)) THEN "held" ELSE "failed"
       ELSE "none"

\* ThinPinVec::reserve_inner: reserve_first, reserve_realloc or reserve_move
PinReserveInner(v, m, additional) ==
    LET nc == PinNewCapacity(v, additional) IN
    IF v.T.size = 0
       THEN [v |-> v, m |-> m, out |-> "panic", growth |-> NoGrowth]
    ELSE IF v.cap = 0
       THEN [v |-> [v EXCEPT !.cap = nc], m |-> Fresh(nc), out |-> "ok",
             growth |-> FirstGrowth]
       ELSE IF v.len = 0 \/ v.trivial
               THEN LET c == ReallocCapacity(v.T, nc) IN
                    IF v.debug /\ ~CapacityAsserted(v.T, nc)
                       THEN [v |-> v, m |-> m, out |-> "panic", growth |-> NoGrowth]
                       ELSE [v |-> [v EXCEPT !.cap = c], m |-> Regrown(m, c), out |-> "ok",
                             growth |-> ReallocGrowth]
               ELSE IF v.len > v.cap
                       THEN [v |-> v, m |-> m, out |-> "UB", growth |-> NoGrowth]
                       ELSE [v |-> [v EXCEPT !.cap = nc], m |-> Moved(m, v.len, nc),
                             out |-> "ok", growth |-> MoveGrowth(v)]

reserve_inner(v, m, additional) ==
    IF v.kind = "ThinVec" THEN ThinVecReserveInner(v, m, additional)
                          ELSE PinReserveInner(v, m, additional)

Same(v, m) == [v |-> v, m |-> m, out |-> "ok", growth |-> NoGrowth]

\* reserve: capacity() - len() is a usize subtraction, which panics with
\* debug assertions and wraps without them when len() > capacity()
reserve(v, m, additional) ==
    IF v.len > capacity(v)
       THEN [v |-> v, m |-> m, out |-> IF v.debug THEN "panic" ELSE "ok",
             growth |-> NoGrowth]
       ELSE IF capacity(v) - v.len < additional THEN reserve_inner(v, m, additional)
                                          ELSE Same(v, m)

\* the room emplace makes before it writes: ThinVec::emplace calls
\* reserve(1), ThinPinVec::try_emplace calls reserve_inner(1)
EmplaceRoom(v, m) ==
    IF v.len = capacity(v)
       THEN IF v.kind = "ThinVec" THEN reserve(v, m, 1) ELSE reserve_inner(v, m, 1)
       ELSE Same(v, m)

\* a push that always writes the first slot
EmplaceIndex_First(v) == 0

\* emplace_unchecked: ptr.add(len)
EmplaceIndex(v) == v.len

\* a value written to slot i; the elements of a zero-sized T take no room,
\* so any slot exists
Written(m, i, val) ==
    [j \in DOMAIN m \cup {i} |-> IF j = i THEN val ELSE m[j]]

\* a push that counts the element before it is constructed
Emplaced_CountFirst(g, val, r) ==
    IF g.out # "ok"
       THEN g
       ELSE IF g.v.len >= capacity(g.v)
               THEN [g EXCEPT !.out = "UB"]
               ELSE [v |-> [g.v EXCEPT !.len = @ + 1],
                     m |-> IF r = "ok" THEN Written(g.m, EmplaceIndex(g.v), val) ELSE g.m,
                     out |-> r, growth |-> g.growth]

\* emplace_unchecked / try_emplace_unchecked after the room was made: the
\* element is constructed in slot len, then len is incremented in the header
Emplaced(g, val, r) ==
    IF g.out # "ok"
       THEN g
       ELSE IF g.v.len >= capacity(g.v)
               THEN [g EXCEPT !.out = "UB"]
               ELSE IF r # "ok"
                       THEN [g EXCEPT !.out = r]
                       ELSE IF OnSentinel(g.v)
                               THEN [g EXCEPT !.out = "UB:sentinel"]
                               ELSE [v |-> [g.v EXCEPT !.len = @ + 1],
                                     m |-> Written(g.m, EmplaceIndex(g.v), val),
                                     out |-> "ok", growth |-> g.growth]

\* the last drain(a..b) of the vector: its range, the length of the vector
\* and its first a elements when it was called, and whether the Drain was
\* leaked
NoDrained == [a |-> 0, b |-> 0, leaked |-> FALSE, len |-> 0, front |-> <<>>]

DrainLen_End(a, b) == b

\* drain: (*ptr).len = range.start
DrainLen(a, b) == a

\* the last call of the vector when it was a reserve that returned: what it
\* asked for and whether the length and the elements are what they were
NoReserved == [additional |-> -1, kept |-> TRUE]

Reserved(v, m, g, additional) ==
    IF g.out = "ok" /\ v.T.size # 0
       THEN [additional |-> additional,
             kept |-> g.v.len = v.len /\ as_slice(g.v, g.m) = as_slice(v, m)]
       ELSE NoReserved

\* the last call of the vector when it was a try_emplace whose constructor
\* was called on a slot of the storage and returned: what the constructor
\* returned, what try_emplace returned, whether the length and the elements
\* are what they were and whether the capacity is at least what it was
NoReturn == [ctor |-> "none", res |-> "none", kept |-> TRUE, room |-> TRUE]

Returned(v, m, room, g, r) ==
    IF room.out = "ok" /\ room.v.len < capacity(room.v) /\ r # "panic"
       THEN [ctor |-> r, res |-> g.out,
             kept |-> g.v.len = v.len /\ as_slice(g.v, g.m) = as_slice(v, m),
             room |-> capacity(g.v) >= capacity(v)]
       ELSE NoReturn

Idle == run.kind = "vec" /\ result = "live" /\ ~vec.drain.active

\* a zero-sized T has one value; the length is capped unless the header
\* already reads usize::MAX
CanPush(v, val) ==
    /\ v.len < MaxVecLen \/ v.len = usize_MAX
    /\ v.T.size = 0 => val = 1

\* a write to the header or a dealloc of the static EMPTY block
SentinelHit(how) ==
    /\ result' = "UB"
    /\ run' = [run EXCEPT !.pure = FALSE, !.sentinel = how, !.growth = NoGrowth,
                           !.drained = NoDrained, !.reserved = NoReserved, !.returned = NoReturn,
                           !.asserted = "none"]
    /\ log' = <<>>

Impure ==
    /\ run' = [run EXCEPT !.pure = FALSE, !.growth = NoGrowth, !.drained = NoDrained,
                           !.reserved = NoReserved, !.returned = NoReturn,
                           !.asserted = "none"]
    /\ log' = <<>>

\* the vector, its storage and the outcome of the call
Becomes(g) ==
    /\ vec' = g.v
    /\ mem' = g.m
    /\ result' = IF g.out \in {"UB", "UB:sentinel"} THEN "UB" ELSE "live"

RunAfter(g, val, isEmplace) ==
    IF isEmplace /\ g.out = "ok" /\ run.pure
       THEN /\ run' = [run EXCEPT !.growth = g.growth, !.drained = NoDrained,
                                  !.reserved = NoReserved, !.returned = NoReturn,
                                  !.asserted = Asserted(vec, 1, vec.len = capacity(vec))]
            /\ log' = Append(log, val)
       ELSE /\ run' = [run EXCEPT !.pure = FALSE, !.growth = g.growth,
                                  !.drained = NoDrained,
                                  !.sentinel = IF g.out = "UB:sentinel" THEN "written" ELSE @,
                                  !.reserved = NoReserved, !.returned = NoReturn,
                                  !.asserted = Asserted(vec, 1, vec.len = capacity(vec))]
            /\ log' = <<>>

\* ThinVec::emplace / ThinPinVec::emplace
VEmplace(val, r) ==
    /\ Idle
    /\ CanPush(vec, val)
    /\ LET g == Emplaced(EmplaceRoom(vec, mem), val, r) IN
       /\ Becomes(g)
       /\ RunAfter(g, val, TRUE)
    /\ UNCHANGED <<writer, teardowns, handle>>

\* ThinPinVec::try_emplace
VTryEmplace(val, r) ==
    /\ Idle
    /\ vec.kind = "ThinPinVec"
    /\ CanPush(vec, val)
    /\ LET room == EmplaceRoom(vec, mem)
           g == Emplaced(room, val, r)
       IN  /\ Becomes(g)
           /\ run' = [run EXCEPT !.pure = FALSE, !.growth = g.growth,
                                  !.drained = NoDrained,
                                  !.sentinel = IF g.out = "UB:sentinel" THEN "written" ELSE @,
                                  !.reserved = NoReserved,
                                  !.returned = Returned(vec, mem, room, g, r),
                                  !.asserted = Asserted(vec, 1, vec.len = capacity(vec))]
           /\ log' = <<>>
    /\ UNCHANGED <<writer, teardowns, handle>>

\* ThinVec::reserve / ThinPinVec::reserve
VReserve(additional) ==
    /\ Idle
    /\ LET g == reserve(vec, mem, additional) IN
       /\ g.v.cap <= MaxCap
       /\ Becomes(g)
       /\ run' = [run EXCEPT !.pure = FALSE, !.growth = g.growth, !.drained = NoDrained,
                              !.reserved = Reserved(vec, mem, g, additional),
                              !.returned = NoReturn,
                              !.asserted = Asserted(vec, additional,
                                               /\ vec.len <= capacity(vec)
                                               /\ capacity(vec) - vec.len < additional)]
       /\ log' = <<>>
    /\ UNCHANGED <<writer, teardowns, handle>>

\* pop, and the returned handle dropped
VPop ==
    /\ Idle
    /\ IF vec.len = 0
          THEN UNCHANGED <<vec, mem, result>> /\ Impure
          ELSE IF OnSentinel(vec)
                  THEN UNCHANGED <<vec, mem>> /\ SentinelHit("written")
                  ELSE /\ vec' = [vec EXCEPT !.len = @ - 1]
                       /\ mem' = Trimmed(mem, vec.len - 1)
                       /\ result' = result
                       /\ Impure
    /\ UNCHANGED <<writer, teardowns, handle>>

\* ThinPinVec::set_len
VSetLen(len) ==
    /\ Idle
    /\ vec.kind = "ThinPinVec"
    /\ IF capacity(vec) = 0
          THEN UNCHANGED <<vec, result>> /\ Impure
          ELSE IF OnSentinel(vec)
                  THEN vec' = vec /\ SentinelHit("written")
                  ELSE /\ vec' = [vec EXCEPT !.len = len]
                       /\ result' = result
                       /\ Impure
    /\ UNCHANGED <<writer, mem, teardowns, handle>>

\* ThinVec::drain(a..b): the length is cut to a, which is a write to the
\* static empty block when nothing was allocated
VDrain(a, b) ==
    /\ Idle
    /\ vec.kind = "ThinVec"
    /\ a <= b /\ b <= vec.len
    /\ IF OnSentinel(vec)
          THEN /\ SentinelHit("written")
               /\ vec' = vec
          ELSE /\ result' = "live"
               /\ run' = [run EXCEPT !.pure = FALSE, !.growth = NoGrowth,
                                      !.reserved = NoReserved, !.returned = NoReturn,
                                      !.asserted = "none",
                                      !.drained = [a |-> a, b |-> b, leaked |-> FALSE,
                                                   len |-> vec.len,
                                                   front |-> Segment(mem, 0, a)]]
               /\ log' = <<>>
               /\ vec' = [vec EXCEPT !.len = DrainLen(a, b),
                                     !.drain = [active |-> TRUE, front |-> a, back |-> b,
                                                tail_offset |-> b,
                                                tail_len |-> vec.len - b]]
    /\ UNCHANGED <<writer, mem, teardowns, handle>>

Draining == run.kind = "vec" /\ result = "live" /\ vec.drain.active

\* Drain::next, and the yielded handle dropped
VDrainNext ==
    /\ Draining
    /\ vec.drain.front < vec.drain.back
    /\ mem' = [mem EXCEPT ![vec.drain.front] = Raw]
    /\ vec' = [vec EXCEPT !.drain.front = @ + 1]
    /\ UNCHANGED <<writer, log, teardowns, result, handle, run>>

\* Drain::next_back, and the yielded handle dropped
VDrainNextBack ==
    /\ Draining
    /\ vec.drain.front < vec.drain.back
    /\ mem' = [mem EXCEPT ![vec.drain.back - 1] = Raw]
    /\ vec' = [vec EXCEPT !.drain.back = @ - 1]
    /\ UNCHANGED <<writer, log, teardowns, result, handle, run>>

\* Drop for Drain
VDrainDrop ==
    /\ Draining
    /\ LET d == vec.drain
           dest == vec.len
           rem_len == d.back - d.front
           rem_start == d.front
           rem_end == d.back
           tail_len == d.tail_len
           tail_start == tail_len
           len == vec.len + rem_len + tail_len
           m1 == IF rem_len # 0 THEN Copied(mem, dest, rem_start, rem_len) ELSE mem
           m2 == IF tail_len # 0 THEN Copied(m1, dest, tail_start, tail_len) ELSE m1
       IN  IF vec.T.size = 0
              THEN /\ vec' = [vec EXCEPT !.drain = NoDrain]
                   /\ mem' = Trimmed(mem, vec.len)
                   /\ result' = "live"
              ELSE
           /\ vec' = [vec EXCEPT !.len = len, !.drain = NoDrain]
           /\ IF rem_len = 0 /\ tail_len = 0
                 THEN mem' = mem /\ result' = "live"
                 ELSE IF tail_start = rem_end
                         THEN /\ mem' = Trimmed(Copied(mem, dest, rem_start, rem_len + tail_len), len)
                              /\ result' = IF rem_start + rem_len + tail_len > vec.cap
                                              THEN "UB" ELSE "live"
                         ELSE /\ mem' = Trimmed(m2, len)
                              /\ result' = IF tail_len # 0 /\ tail_start + tail_len > vec.cap
                                              THEN "UB" ELSE "live"
    /\ run' = [run EXCEPT !.drained = NoDrained]
    /\ UNCHANGED <<writer, log, teardowns, handle>>

\* core::mem::forget(drain)
VDrainForget ==
    /\ Draining
    /\ vec' = [vec EXCEPT !.drain = NoDrain]
    /\ mem' = Trimmed(mem, vec.len)
    /\ run' = [run EXCEPT !.drained.leaked = TRUE]
    /\ UNCHANGED <<writer, log, teardowns, result, handle>>

\* Drop: if self.capacity() == 0 { return }
HasBlock(v) == capacity(v) # 0

\* Drop for ThinVec / ThinPinVec up to the end of drop_in_place: nothing for
\* the static empty block, else the elements [0, len) are torn down while
\* the guard that frees the block is still alive
VDrop ==
    /\ Idle
    /\ IF ~HasBlock(vec)
          THEN /\ result' = "dropped"
               /\ Impure
               /\ UNCHANGED <<mem, teardowns>>
          ELSE IF OnSentinel(vec)
                  THEN /\ SentinelHit("freed")
                       /\ UNCHANGED <<mem, teardowns>>
                  ELSE IF vec.len > capacity(vec) \/ ~Initialized(as_slice(vec, mem))
                          THEN /\ result' = "UB"
                               /\ Impure
                               /\ UNCHANGED <<mem, teardowns>>
                          ELSE /\ result' = "dropping"
                               /\ Impure
                               /\ teardowns' = TornDown(Fresh(Max(vec.cap, vec.len)),
                                                        [start |-> 0, len |-> vec.len])
                               /\ mem' = Dropped(mem, [start |-> 0, len |-> vec.len])
    /\ UNCHANGED <<writer, handle, vec>>

\* Drop for RawThinVec / RawAlloc: dealloc when the guard goes out of scope
VDropFree ==
    /\ run.kind = "vec"
    /\ result = "dropping"
    /\ result' = "dropped"
    /\ run' = [run EXCEPT !.freed = @ + 1]
    /\ UNCHANGED <<writer, mem, log, teardowns, handle, vec>>

InitV ==
    /\ writer = SliceWriterNew(FALSE, 0)
    /\ log = <<>>
    /\ teardowns = Fresh(0)
    /\ handle = NoHandle
    /\ result = "live"
    /\ \E kind \in {"ThinVec", "ThinPinVec"}, T \in ElemTypes,
          trivial \in BOOLEAN, debug \in BOOLEAN, c \in 0..MaxRequest :
          /\ kind = "ThinVec" => T.size # 1 /\ ~debug
          /\ vec = VecNew(kind, T, trivial, debug, c)
          /\ mem = Fresh(c)
          /\ \E origin \in {"new", "with_capacity"} :
                /\ origin = "new" => c = 0
                /\ run = [kind |-> "vec", origin |-> origin, pure |-> TRUE, freed |-> 0,
                          sentinel |-> "intact", growth |-> NoGrowth,
                          drained |-> NoDrained, reserved |-> NoReserved,
                          returned |-> NoReturn, asserted |-> "none"]

NextV ==
    \/ \E val \in Elems, r \in Infallible : VEmplace(val, r)
    \/ \E val \in Elems, r \in Fallible : VTryEmplace(val, r)
    \/ \E additional \in 0..MaxRequest : VReserve(additional)
    \/ VPop
    \/ \E len \in 0..MaxSetLen : VSetLen(len)
    \/ \E a \in 0..MaxVecLen, b \in 0..MaxVecLen : VDrain(a, b)
    \/ VDrainNext
    \/ VDrainNextBack
    \/ VDrainDrop
    \/ VDrainForget
    \/ VDrop
    \/ VDropFree

SpecV == InitV /\ [][NextV]_vars

(***************************************************************************)
(* The owning handles Init and PinInit (ptr.rs, ptr/raw.rs, pin_ptr.rs,    *)
(* pin_ptr/raw.rs): a pointer to an initialized T or [T] that tears the    *)
(* value down when it is dropped.  Every conversion consumes the handle    *)
(* and yields a new one, numbered by run.gen.  `log` lists the handles     *)
(* that ran drop_in_place, run.consumed the handles that were given up.    *)
(***************************************************************************)
MaxHops == 4

HandleKinds == {"Init", "PinInit"}

\* core::mem::forget(self): Drop does not run
forget_Dropped(t, h) == TornDown(t, h)

forget(t, h) == t

\* self.as_mut_ptr().drop_in_place()
drop_in_place(t, h) == TornDown(t, h)

\* into_raw_non_null: let ptr = self.ptr; forget(self); ptr
into_raw(h) == h

\* Init::from_raw / PinInit::from_raw: the handle is the pointer
from_raw(ptr) == ptr

Held == run.kind = "handle" /\ result = "live" /\ run.ptr \in HandleKinds

Consumed(by) == [run EXCEPT !.consumed = @ \cup {run.gen}, !.by = by]

\* Drop for Init / Drop for PinInit
HDrop ==
    /\ Held
    /\ teardowns' = drop_in_place(teardowns, handle)
    /\ mem' = Dropped(mem, handle)
    /\ log' = Append(log, run.gen)
    /\ handle' = NoHandle
    /\ result' = "dropped"
    /\ run' = [run EXCEPT !.by = "drop"]
    /\ UNCHANGED <<writer, vec>>

\* Init::take_ownership / PinInit::take_ownership
HTakeOwnership ==
    /\ Held
    /\ teardowns' = forget(teardowns, handle)
    /\ handle' = NoHandle
    /\ result' = "taken"
    /\ run' = Consumed("take_ownership")
    /\ UNCHANGED <<writer, mem, log, vec>>

\* Init::into_raw / PinInit::into_raw
HIntoRaw ==
    /\ Held
    /\ teardowns' = forget(teardowns, handle)
    /\ handle' = NoHandle
    /\ run' = [Consumed("into_raw") EXCEPT !.ptr = "raw", !.raw = into_raw(handle)]
    /\ UNCHANGED <<writer, mem, log, result, vec>>

\* unsafe Init::from_raw / PinInit::from_raw on the pointer of into_raw
HFromRaw(k) ==
    /\ run.kind = "handle" /\ result = "live" /\ run.ptr = "raw"
    /\ run.gen < MaxHops
    /\ handle' = from_raw(run.raw)
    /\ run' = [run EXCEPT !.ptr = k, !.gen = @ + 1, !.by = "from_raw", !.raw = NoHandle]
    /\ UNCHANGED <<writer, mem, log, teardowns, result, vec>>

\* Init::pin: PinInit::from_raw(self.into_raw())
HPin ==
    /\ Held /\ run.ptr = "Init"
    /\ run.gen < MaxHops
    /\ teardowns' = forget(teardowns, handle)
    /\ handle' = from_raw(into_raw(handle))
    /\ run' = [Consumed("pin") EXCEPT !.ptr = "PinInit", !.gen = @ + 1, !.pinned = TRUE]
    /\ UNCHANGED <<writer, mem, log, result, vec>>

\* PinInit::into_inner (T: Unpin): Init::from_raw(self.into_raw())
HPinIntoInner ==
    /\ Held /\ run.ptr = "PinInit" /\ run.unpin
    /\ run.gen < MaxHops
    /\ teardowns' = forget(teardowns, handle)
    /\ handle' = from_raw(into_raw(handle))
    /\ run' = [Consumed("into_inner") EXCEPT !.ptr = "Init", !.gen = @ + 1]
    /\ UNCHANGED <<writer, mem, log, result, vec>>

\* Init::into_inner (T: Sized): self.into_raw().read()
HIntoInner ==
    /\ Held /\ run.ptr = "Init" /\ run.sized
    /\ teardowns' = forget(teardowns, handle)
    /\ handle' = NoHandle
    /\ result' = "moved"
    /\ run' = [Consumed("into_inner") EXCEPT !.value = mem[into_raw(handle).start]]
    /\ UNCHANGED <<writer, mem, log, vec>>

\* a handle to a T (one slot) or a [T] somewhere in a region of initialized
\* memory
InitH ==
    /\ writer = SliceWriterNew(FALSE, 0)
    /\ vec = NoVec
    /\ log = <<>>
    /\ result = "live"
    /\ mem \in [Slots(MaxLen) -> Vals]
    /\ teardowns = [i \in Slots(MaxLen) |-> 0]
    /\ \E start \in Slots(MaxLen), len \in 0..MaxLen, k \in HandleKinds,
          unpin \in BOOLEAN, sized \in BOOLEAN :
          /\ start + len <= MaxLen
          /\ sized => len = 1
          /\ handle = [start |-> start, len |-> len]
          /\ run = [kind |-> "handle", ptr |-> k, first |-> k, unpin |-> unpin,
                    sized |-> sized, gen |-> 1, consumed |-> {}, by |-> "from_raw",
                    raw |-> NoHandle, value |-> Raw, pinned |-> FALSE,
                    slice |-> handle, orig |-> mem]

NextH ==
    \/ HDrop
    \/ HTakeOwnership
    \/ HIntoRaw
    \/ \E k \in HandleKinds : HFromRaw(k)
    \/ HPin
    \/ HPinIntoInner
    \/ HIntoInner

SpecH == InitH /\ [][NextH]_vars

(***************************************************************************)
(* boxed.rs, pin_boxed.rs, thin/src/boxed.rs: a slice of scalars built on  *)
(* the heap from CopyArgsLen(n, arg) (SpecB).  A scalar is written as its  *)
(* bytes, [sign, rest]: the top bit and the bits below it.  `mem` is the   *)
(* slice of the block, element by element; run.header is the length word   *)
(* ThinBox keeps in front of it.  run.fallible says the request came       *)
(* through try_boxed / try_pin_boxed with an element constructor that may  *)
(* fail.  run.block is the block's owner: "heap" while only the raw        *)
(* pointer holds it, "Box" once the box does, "dangling" for no bytes.     *)
(***************************************************************************)
Bits(sign, rest) == [sign |-> sign, rest |-> rest]

\* an element of a block from alloc_zeroed, and of a block from alloc
Zeroed == Bits(0, 0)
Garbage == Bits(-1, -1)

\* 1.0f32 and a NaN below their sign bit
f32_one == 1065353216
f32_nan == 2143289344

ScalarTypes == {"u8", "f32", "bool"}

Scalars(ty) ==
    CASE ty = "u8"   -> {Bits(0, v) : v \in 0..NumVals} \cup {Bits(1, 127)}
      [] ty = "f32"  -> {Bits(0, 0), Bits(1, 0), Bits(0, f32_one), Bits(1, f32_one),
                         Bits(0, f32_nan)}
      [] ty = "bool" -> {Bits(0, 0), Bits(0, 1)}

size_of(ty) == IF ty = "f32" THEN 4 ELSE 1

\* the argument of the element constructor: () or a scalar
UnitArg == [unit |-> TRUE, v |-> Zeroed]
ScalarArg(v) == [unit |-> FALSE, v |-> v]

\* primitive!: let _value = 0 (0.0, false)
zero(ty) == Bits(0, 0)

\* a == b on scalars: on floats a NaN equals nothing and 0.0 == -0.0
eq(ty, a, b) ==
    IF ty = "f32"
       THEN /\ a.rest # f32_nan /\ b.rest # f32_nan
            /\ a = b \/ (a.rest = 0 /\ b.rest = 0)
       ELSE a = b

\* ScalarLayoutProvider::is_zeroed for () and for a scalar argument
scalar_is_zeroed(ty, arg) ==
    IF arg.unit THEN TRUE ELSE eq(ty, arg.v, zero(ty))

\* Ctor<()> / Ctor<$ty> for $ty: uninit.write(_value) / uninit.write(arg)
scalar_init(ty, arg) == IF arg.unit THEN zero(ty) ELSE arg.v

\* header word of WithHeader<[T]>
header_size == 8

\* is_zeroed and layout_of of the request: CopyArgsLen defers to the element,
\* WithHeaderLayoutProvider keeps the default (false) and adds the header
is_zeroed(entry, ty, arg) ==
    IF entry = "ThinBox" THEN FALSE ELSE scalar_is_zeroed(ty, arg)

layout_size(entry, ty, n) ==
    IF entry = "ThinBox" THEN header_size + pad_to_align(size_of(ty) * n, header_size)
                         ELSE size_of(ty) * n

align_of(ty) == IF ty = "f32" THEN 4 ELSE 1

layout_align(entry, ty) ==
    IF entry = "ThinBox" THEN Max(header_size, align_of(ty)) ELSE align_of(ty)

\* the address the global allocator returns for a block, and a null pointer
HeapAddr == 64
Null == 0

NeedsAlloc_Always(size) == TRUE

\* if layout.size() == 0 { layout.align() as *mut u8 } else { alloc... }
NeedsAlloc(size) == size # 0

\* try_boxed_with / try_pin_boxed_with up to the cast: the block (or the
\* aligned address that stands for a block of no bytes), and the writer the
\* slice constructor will run over it
BAlloc(ok) ==
    /\ run.kind = "boxed"
    /\ result = "called"
    /\ LET z    == IF run.fallible THEN FALSE
                                  ELSE is_zeroed(run.entry, run.ty, run.arg)
           size == layout_size(run.entry, run.ty, run.n)
           r0   == IF NeedsAlloc(size)
                      THEN [run EXCEPT !.allocs = @ + 1,
                                       !.block = IF ok THEN "heap" ELSE "none",
                                       !.ptr = IF ok THEN HeapAddr ELSE Null]
                      ELSE [run EXCEPT !.block = "dangling",
                                       !.ptr = layout_align(run.entry, run.ty)]
       IN  IF r0.ptr = Null
              THEN /\ result' = "AllocError"
                   /\ run' = r0
                   /\ UNCHANGED <<mem, writer, teardowns>>
              ELSE /\ result' = "live"
                   /\ mem' = [i \in Slots(run.n) |-> IF z THEN Zeroed ELSE Garbage]
                   /\ teardowns' = [i \in Slots(run.n) |-> 0]
                   /\ run' = [r0 EXCEPT !.zeroed = z]
                   /\ writer' = SliceWriterNew(run.entry = "pin_boxed", run.n)
    /\ UNCHANGED <<log, handle, vec>>

\* if !is_zeroed: the slice constructor for CopyArgs, one element of the
\* loop.  When the element constructor fails the writer is dropped, which
\* tears down the elements built so far, and `?` returns InitError.
BInit(r) ==
    /\ run.kind = "boxed"
    /\ result = "live"
    /\ ~run.zeroed
    /\ ~is_complete(writer)
    /\ r # "ok" => run.fallible
    /\ LET v == scalar_init(run.ty, run.arg) IN
       IF r = "ok"
          THEN /\ try_init_unchecked(v, r)
               /\ UNCHANGED <<teardowns, result, run>>
          ELSE /\ log' = Logged(writer, v, r)
               /\ writer' = AfterWrite(writer, r)
               /\ teardowns' = TornDown(teardowns, get_remaining(writer'))
               /\ mem' = [i \in DOMAIN mem |-> IF i < writer.init THEN Garbage ELSE mem[i]]
               /\ result' = IF r = "panic" THEN "panic" ELSE "InitError"
               /\ run' = [run EXCEPT !.error = r]
    /\ UNCHANGED <<handle, vec>>

\* the rest of the constructor (WithHeader: the metadata of the value) and
\* Box::from_raw of the cast pointer
BFinish ==
    /\ run.kind = "boxed"
    /\ result = "live"
    /\ run.zeroed \/ is_complete(writer)
    /\ result' = "Box"
    /\ run' = [run EXCEPT !.header = IF run.entry = "ThinBox" THEN run.n ELSE @,
                           !.block = IF @ = "heap" THEN "Box" ELSE @]
    /\ handle' = [start |-> 0,
                  len |-> IF run.entry = "ThinBox" THEN run'.header ELSE run.n]
    /\ UNCHANGED <<writer, mem, log, teardowns, vec>>

InitB ==
    /\ \E n \in 0..MaxLen, entry \in {"boxed", "pin_boxed", "ThinBox"},
          ty \in ScalarTypes :
          /\ RegionInit(entry = "pin_boxed", 0)
          /\ \E arg \in {UnitArg} \cup {ScalarArg(v) : v \in Scalars(ty)} :
             \E fallible \in BOOLEAN :
                /\ fallible => entry # "ThinBox" /\ ~arg.unit
                /\ run = [kind |-> "boxed", entry |-> entry, ty |-> ty, n |-> n,
                          arg |-> arg, zeroed |-> FALSE, header |-> -1,
                          fallible |-> fallible, allocs |-> 0, deallocs |-> 0,
                          block |-> "none", ptr |-> Null, error |-> "ok"]
    /\ result = "called"
    /\ vec = NoVec

NextB ==
    \/ \E ok \in BOOLEAN : BAlloc(ok)
    \/ \E r \in Fallible : BInit(r)
    \/ BFinish

SpecB == InitB /\ [][NextB]_vars

(***************************************************************************)
(* thin/src/ptr.rs, mutex/src/lib.rs: the layout providers of the          *)
(* composite types WithHeader<T> { metadata, value } and                   *)
(* Mutex<T> { lock, value } (SpecP).  A layout is [size, align]; the run   *)
(* holds the provider, the layouts of the two fields, the layout the       *)
(* provider computed (the block is allocated with it) and the layout the   *)
(* constructed value reports when its box is dropped.                      *)
(***************************************************************************)
MaxUnits == 3

Aligns == {1, 2, 4, 8, 16}

Layout(size, align) == [size |-> size, align |-> align]

NoLayout == Layout(-1, -1)

\* Layout::extend: `next` placed after `l` at the next multiple of its
\* alignment; no trailing padding
extend(l, next) ==
    Layout(pad_to_align(l.size, next.align) + next.size, Max(l.align, next.align))

\* Layout::pad_to_align on a layout
padded(l) == Layout(pad_to_align(l.size, l.align), l.align)

\* Layout::for_value of a #[repr(C)] struct of two fields
for_value(first, second) == padded(extend(first, second))

\* Layout::new::<PThreadMutex>(): pthread_mutex_t on 64-bit and 32-bit Linux
PThreadMutexLayouts == {Layout(40, 8), Layout(24, 4)}

\* Layout::new::<Metadata<T>>(): () for a sized value, usize for a slice
MetadataLayouts == {Layout(0, 1), Layout(8, 8)}

Providers == {"WithHeader", "Mutex", "NewMutex"}

FirstFields(provider) ==
    IF provider = "WithHeader" THEN MetadataLayouts ELSE PThreadMutexLayouts

\* the layouts a value can have: the size is a multiple of the alignment
ValueLayouts == {Layout(k * a, a) : k \in 0..MaxUnits, a \in Aligns}

\* WithHeaderLayoutProvider::layout_of and the two MutexLayoutProvider::layout_of
layout_of(provider, first, value) ==
    CASE provider = "WithHeader" -> padded(extend(first, value))
      [] provider = "Mutex"      -> padded(extend(first, value))
      [] provider = "NewMutex"   -> extend(first, value)

\* try_pin_boxed_with: let layout = L::layout_of(&args); alloc(layout)
PLayoutOf ==
    /\ run.kind = "layout"
    /\ result = "called"
    /\ run' = [run EXCEPT !.out = layout_of(run.provider, run.first, run.value)]
    /\ result' = "Box"
    /\ UNCHANGED <<writer, mem, log, teardowns, handle, vec>>

\* Drop for Box / RawThinBox: dealloc(ptr, Layout::for_value(&*ptr))
PDealloc ==
    /\ run.kind = "layout"
    /\ result = "Box"
    /\ run' = [run EXCEPT !.freed = for_value(run.first, run.value)]
    /\ result' = "dropped"
    /\ UNCHANGED <<writer, mem, log, teardowns, handle, vec>>

InitP ==
    /\ RegionInit(FALSE, 0)
    /\ result = "called"
    /\ vec = NoVec
    /\ \E provider \in Providers :
       \E first \in FirstFields(provider), value \in ValueLayouts :
          run = [kind |-> "layout", provider |-> provider, first |-> first,
                 value |-> value, out |-> NoLayout, freed |-> NoLayout]

NextP ==
    \/ PLayoutOf
    \/ PDealloc

SpecP == InitP /\ [][NextP]_vars

(***************************************************************************)
(* thin/src/ptr.rs: RawThinPtr over a block holding a                      *)
(* #[repr(C)] WithHeader<T> { metadata, value } (SpecT).  run.base is the  *)
(* address of the block, run.meta and run.value the layouts of the two     *)
(* fields, run.len the metadata written there; run.raw is the address the  *)
(* thin pointer stores, run.readat / run.read the address metadata() reads *)
(* and what it finds, run.vptr the address as_mut_ptr() returns.           *)
(***************************************************************************)
Unset == -1

\* offset of the field `value` in WithHeader: the metadata, then padding up
\* to the value's alignment
value_offset(meta, value) == pad_to_align(meta.size, value.align)

\* what a read of a Metadata<T> at address a finds
MetadataAt(a) == IF a = run.base THEN run.len ELSE Unset

RawThinPtr_from_raw_Shifted(ptr) == ptr + header_size

\* RawThinPtr::from_raw: raw: ptr.cast()
RawThinPtr_from_raw(ptr) == ptr

\* RawThinPtr::from_raw / from_init on the pointer to the WithHeader
TFromRaw ==
    /\ run.kind = "thin"
    /\ run.raw = Unset
    /\ run' = [run EXCEPT !.raw = RawThinPtr_from_raw(run.base)]
    /\ UNCHANGED <<writer, mem, log, teardowns, result, handle, vec>>

\* RawThinPtr::metadata: *self.raw.cast::<Metadata<T>>().as_ptr()
TMetadata ==
    /\ run.kind = "thin"
    /\ run.raw # Unset /\ run.readat = Unset
    /\ run' = [run EXCEPT !.readat = run.raw, !.read = MetadataAt(run.raw)]
    /\ UNCHANGED <<writer, mem, log, teardowns, result, handle, vec>>

\* RawThinPtr::as_mut_ptr: addr_of_mut!((*as_mut_with_header_ptr()).value)
TAsMutPtr ==
    /\ run.kind = "thin"
    /\ run.raw # Unset /\ run.vptr = Unset
    /\ run' = [run EXCEPT !.vptr = run.raw + value_offset(run.meta, run.value)]
    /\ UNCHANGED <<writer, mem, log, teardowns, result, handle, vec>>

InitT ==
    /\ RegionInit(FALSE, 0)
    /\ result = "live"
    /\ vec = NoVec
    /\ \E base \in {HeapAddr, 2 * HeapAddr}, meta \in MetadataLayouts,
          value \in ValueLayouts, len \in 0..MaxLen :
          /\ meta.size = 0 => len = 0
          /\ run = [kind |-> "thin", base |-> base, meta |-> meta, value |-> value,
                    len |-> len, raw |-> Unset, readat |-> Unset, read |-> Unset,
                    vptr |-> Unset]

NextT ==
    \/ TFromRaw
    \/ TMetadata
    \/ TAsMutPtr

SpecT == InitT /\ [][NextT]_vars

(***************************************************************************)
(* init/src/lib.rs: try_stack_init and try_stack_pin_init (SpecS).         *)
(* run.pin selects the entry point, run.args is the value the constructor  *)
(* builds, run.f the closure; run.ctor records what the constructor        *)
(* returned, run.calls counts the calls of the closure, run.passed is the  *)
(* value the closure was handed and run.out what the function returns.     *)
(* mem[0] is the MaybeUninit slot on the stack.                            *)
(***************************************************************************)
\* the closures explored: one that drops the Init it is handed, one that
\* forgets it, one that panics
Closures == {"drop", "forget", "panic"}

NoOutput == [tag |-> "none"]

CtorSucceeded_Any(r) == TRUE

\* match uninit.try_init(args) { Ok(value) => .., Err(err) => .. }
CtorSucceeded(r) == r = "ok"

\* let mut slot = MaybeUninit::<T>::uninit(); Uninit::from_ref(&mut slot)
SSlot ==
    /\ run.kind = "stack"
    /\ result = "start"
    /\ result' = "slot"
    /\ UNCHANGED <<writer, mem, log, teardowns, handle, run, vec>>

\* uninit.try_init(args) / uninit.try_pin_init(args)
STryInit(r) ==
    /\ run.kind = "stack"
    /\ result = "slot"
    /\ log' = Logged(writer, run.args, r)
    /\ mem' = IF r = "ok" THEN [mem EXCEPT ![0] = run.args] ELSE mem
    /\ run' = [run EXCEPT !.ctor = r]
    /\ result' = IF r = "panic" THEN "panic"
                 ELSE IF CtorSucceeded(r) THEN "Init" ELSE "Err"
    /\ UNCHANGED <<writer, teardowns, handle, vec>>

\* Ok(value) => Ok(f(value)): the closure runs; an Init it does not forget
\* is dropped, a Pin<&mut T> is never dropped
SCall ==
    /\ run.kind = "stack"
    /\ result = "Init"
    /\ LET drops == ~run.pin /\ run.f # "forget"
       IN  /\ teardowns' = IF drops THEN [teardowns EXCEPT ![0] = @ + 1] ELSE teardowns
           /\ mem' = IF drops THEN [mem EXCEPT ![0] = Raw] ELSE mem
    /\ run' = [run EXCEPT !.calls = @ + 1, !.passed = mem[0]]
    /\ result' = IF run.f = "panic" THEN "panic" ELSE "Ok"
    /\ UNCHANGED <<writer, log, handle, vec>>

\* `output`: Ok(f(value)) or Err(err) is returned, the slot goes out of scope
SReturn ==
    /\ run.kind = "stack"
    /\ result \in {"Ok", "Err"}
    /\ run' = [run EXCEPT !.out = IF result = "Ok" THEN [tag |-> "Ok", val |-> run.passed]
                                  ELSE [tag |-> "Err", err |-> run.ctor]]
    /\ result' = "returned"
    /\ UNCHANGED <<writer, mem, log, teardowns, handle, vec>>

InitS ==
    /\ \E pin \in BOOLEAN : RegionInit(pin, 1)
    /\ result = "start"
    /\ vec = NoVec
    /\ \E args \in Vals, f \in Closures :
          run = [kind |-> "stack", pin |-> writer.pin, args |-> args, f |-> f,
                 ctor |-> "none", calls |-> 0, passed |-> Raw, out |-> NoOutput]

NextS ==
    \/ SSlot
    \/ \E r \in Fallible : STryInit(r)
    \/ SCall
    \/ SReturn

SpecS == InitS /\ [][NextS]_vars

(***************************************************************************)
(* init/src/macros.rs: try_init_struct! and try_pin_init_struct! (SpecM).  *)
(* run.n is the number of fields written in the macro call and run.k the   *)
(* number of field statements already executed; mem[i] is field i of the   *)
(* struct, log the constructor calls and teardowns[i] how often field i    *)
(* was torn down.  Each constructed field is a local Init / PinInit named  *)
(* after the field until the macro forgets them all.                       *)
(***************************************************************************)
MaxFields == 3

Locals_None(k) == {}

\* the field handles bound by the statements already executed
Locals(k) == Slots(k)

\* an early return or an unwind drops the locals in scope, each of them an
\* Init / PinInit that tears its field down
LocalsDropped(t, k) == [i \in DOMAIN t |-> IF i \in Locals(k) THEN t[i] + 1 ELSE t[i]]

\* let mut $field_name = TryCtor::try_init(field_uninit, $field_value)?;
MField(v, r) ==
    /\ run.kind = "struct"
    /\ result = "building"
    /\ run.k < run.n
    /\ log' = Append(log, [slot |-> run.k, val |-> v, res |-> r])
    /\ IF r = "ok"
          THEN /\ mem' = [mem EXCEPT ![run.k] = v]
               /\ run' = [run EXCEPT !.k = @ + 1]
               /\ UNCHANGED <<teardowns, result>>
          ELSE /\ mem' = [i \in DOMAIN mem |-> IF i \in Locals(run.k) THEN Raw ELSE mem[i]]
               /\ teardowns' = LocalsDropped(teardowns, run.k)
               /\ run' = [run EXCEPT !.out = r]
               /\ result' = IF r = "panic" THEN "panic" ELSE "Err"
    /\ UNCHANGED <<writer, handle, vec>>

\* mem::forget((fields..)); uninit.assume_init() / .pin()
MFinish ==
    /\ run.kind = "struct"
    /\ result = "building"
    /\ run.k = run.n
    /\ result' = "Init"
    /\ handle' = [start |-> 0, len |-> run.n]
    /\ run' = [run EXCEPT !.out = "ok"]
    /\ UNCHANGED <<writer, mem, log, teardowns, vec>>

\* the Init / PinInit of the struct dropped: the fields are torn down
MDrop ==
    /\ run.kind = "struct"
    /\ result = "Init"
    /\ result' = "dropped"
    /\ teardowns' = TornDown(teardowns, handle)
    /\ mem' = Dropped(mem, handle)
    /\ handle' = NoHandle
    /\ UNCHANGED <<writer, log, run, vec>>

InitM ==
    /\ \E pin \in BOOLEAN, n \in 0..MaxFields :
          /\ writer = SliceWriterNew(pin, 0)
          /\ mem = [i \in Slots(n) |-> Raw]
          /\ teardowns = [i \in Slots(n) |-> 0]
          /\ run = [kind |-> "struct", pin |-> pin, n |-> n, k |-> 0, out |-> "none"]
    /\ log = <<>>
    /\ handle = NoHandle
    /\ result = "building"
    /\ vec = NoVec

NextM ==
    \/ \E v \in Vals, r \in Fallible : MField(v, r)
    \/ MFinish
    \/ MDrop

SpecM == InitM /\ [][NextM]_vars

(***************************************************************************)
(* Properties of the writers (SpecW).                                      *)
(***************************************************************************)
\* the slots whose element constructor returned successfully
Succeeded == {log[k].slot : k \in {j \in DOMAIN log : log[j].res = "ok"}}

AllOk == \A k \in DOMAIN log : log[k].res = "ok"

\* C1: dropping a writer without finishing it, after any sequence of write
\* attempts, tears down exactly the elements whose construction succeeded,
\* each once, and no element whose construction failed or was not attempted.
C1_DropTearsDownExactlyConstructed ==
    (run = NoRun /\ result = "dropped") =>
        \A i \in DOMAIN mem :
            teardowns[i] = IF i \in Succeeded THEN 1 ELSE 0

\* C2: in every state of a SliceWriter reached through new, init and try_init,
\* init <= len, every element below init is initialized and every element
\* from init up to len is uninitialized.
C2_SliceWriterInvariant ==
    (run = NoRun /\ result = "live" /\ ~writer.pin) =>
        /\ writer.init <= writer.len
        /\ \A i \in Slots(writer.len) :
              IF i < writer.init THEN mem[i] # Raw ELSE mem[i] = Raw

\* C4: finish and try_finish hand out a handle only if all len elements were
\* constructed successfully, and the handle covers exactly [0, len).
C4_HandleOnlyWhenAllConstructed ==
    (run = NoRun /\ result = "Some") =>
        /\ Succeeded = Slots(writer.len)
        /\ handle = [start |-> 0, len |-> writer.len]

\* C5: remaining_len() is len minus the number of successfully constructed
\* elements (so a failed write leaves it unchanged), and is_complete() only
\* when all len elements are constructed.
C5_RemainingLenCountsConstructed ==
    (run = NoRun /\ result = "live") =>
        /\ remaining_len(writer) = writer.len - Cardinality(Succeeded)
        /\ is_complete(writer) => Succeeded = Slots(writer.len)

\* C8: a SliceWriter over n raw slots, given n successful writes and then
\* finished, yields a handle of length n whose i-th element is the i-th value
\* written, and the writer tore down none of them.
C8_RoundTrip ==
    (run = NoRun /\ result = "Some" /\ ~writer.pin /\ AllOk
        /\ Len(log) = writer.len) =>
        /\ handle.len = writer.len
        /\ \A i \in Slots(writer.len) : Get(handle, i) = log[i + 1].val
        /\ \A i \in DOMAIN teardowns : teardowns[i] = 0

C8_Witness ==
    /\ run = NoRun /\ result = "Some" /\ ~writer.pin /\ AllOk
    /\ Len(log) = writer.len
    /\ writer.len >= 2
    /\ log[1].val # log[2].val

(***************************************************************************)
(* Properties of the slice constructors (SpecC).                           *)
(***************************************************************************)
ElementFailed == run.kind \in {"CopyArgs", "CloneArgs", "IterInit"}
                    /\ result = "Err" /\ run.error.tag # "NotEnoughItems"

\* C3: when a slice is constructed with CopyArgs, CloneArgs or IterInit and
\* element k is the first whose construction fails, no later element is
\* attempted, exactly the k elements [0, k) built before are torn down, once
\* each, and that element's error is what the caller gets.
C3_PrefixTornDownOnError ==
    ElementFailed =>
        LET k == Len(log) - 1 IN
        /\ k >= 0
        /\ \A j \in 1..Len(log) : log[j].slot = j - 1
        /\ \A j \in 1..k : log[j].res = "ok"
        /\ log[k + 1].res \in Errs
        /\ run.error.e = log[k + 1].res
        /\ \A i \in DOMAIN mem : teardowns[i] = IF i < k THEN 1 ELSE 0
        /\ \A i \in DOMAIN mem : mem[i] = Raw
        /\ handle = NoHandle

C3_Witness ==
    /\ ElementFailed
    /\ writer.len = 3
    /\ Len(log) = 3
    /\ teardowns[0] = 1 /\ teardowns[1] = 1 /\ teardowns[2] = 0

IterDone == run.kind = "IterInit" /\ result \in {"Some", "Err"} /\ AllOk

\* C7: IterInit over an iterator of m items that all construct: with m >= n
\* the slice is the first n items in order and exactly n items are pulled;
\* with m < n the result is NotEnoughItems, no slice, and each of the m
\* constructed elements is torn down once.
C7_IterInit ==
    IterDone =>
        LET n == writer.len
            m == Len(run.src)
        IN  IF m >= n
               THEN /\ result = "Some"
                    /\ handle.len = n
                    /\ \A i \in Slots(n) : Get(handle, i) = run.src[i + 1]
                    /\ run.pulled = n
                    /\ \A i \in DOMAIN teardowns : teardowns[i] = 0
               ELSE /\ result = "Err"
                    /\ run.error = [tag |-> "NotEnoughItems"]
                    /\ handle = NoHandle
                    /\ \A i \in DOMAIN teardowns :
                          teardowns[i] = IF i < m THEN 1 ELSE 0

C7_Witness ==
    /\ IterDone
    /\ writer.len = 3
    /\ Len(run.src) = 2
    /\ result = "Err"
    /\ teardowns[1] = 1

(***************************************************************************)
(* Properties of the move, take and clone constructors of slices (SpecL).  *)
(***************************************************************************)
Untouched ==
    /\ \A i \in DOMAIN mem : mem[i] = Raw
    /\ log = <<>>
    /\ handle = NoHandle

\* C6: move-, take- and clone-constructing a slice of length n, pinned or
\* not, from a source of length m: when m # n the call fails with the length
\* error carrying expected n and found m and no destination element has been
\* written; when m = n no length error is ever raised.
C6_LengthMismatchRejected ==
    (run.kind \in Kinds /\ result # "called") =>
        LET n == writer.len
            m == Len(run.src)
        IN  IF m # n
               THEN /\ result = "panic"
                    /\ run.error = length_error(n, m)
                    /\ Untouched
               ELSE run.error = NoError

C6_Witness ==
    /\ run.kind \in Kinds
    /\ result = "panic"
    /\ writer.len = 3
    /\ Len(run.src) = 4
    /\ run.error = length_error(3, 4)

(***************************************************************************)
(* Properties of the vectors (SpecV).                                      *)
(***************************************************************************)
\* C9: in every state of a ThinVec or ThinPinVec reached through its safe
\* operations, len() <= capacity() and every element below len() is
\* initialized.
C9_VecInvariant ==
    (run.kind = "vec" /\ result = "live" /\ ~vec.drain.active) =>
        /\ vec.len <= capacity(vec)
        /\ \A i \in Slots(vec.len) : i \in DOMAIN mem /\ mem[i] # Raw

\* C10: starting from new(), after n successive emplace calls len() = n,
\* capacity() >= n and as_slice() holds the n pushed values in push order.
C10_EmplaceFromNew ==
    (run.kind = "vec" /\ run.origin = "new" /\ run.pure /\ vec.T.size # 0) =>
        /\ result = "live"
        /\ vec.len = Len(log)
        /\ vec.cap >= Len(log)
        /\ \A i \in Slots(Len(log)) : i \in DOMAIN mem /\ mem[i] = log[i + 1]

C10_Witness ==
    /\ run.kind = "vec" /\ run.origin = "new" /\ run.pure
    /\ vec.len = MaxVecLen
    /\ vec.cap = 8
    /\ log[1] # log[2]

\* what a Drain still holds: the kept front of the vector, the items of the
\* range not yet yielded, and the tail behind the range
DrainFront == Segment(mem, 0, vec.len)

DrainRest == Segment(mem, vec.drain.front, vec.drain.back - vec.drain.front)

DrainTail == Segment(mem, vec.drain.tail_offset, vec.drain.tail_len)

\* C11: when the Drain for a..b of a ThinVec holding s is dropped after
\* yielding some items from its front and back, as_slice() is s[0, a), then
\* the items of s[a, b) that were not yielded, then s[b, len), each in the
\* original order.
C11_DrainDropKeepsTheRest ==
    [][(VDrainDrop /\ Initialized(DrainFront \o DrainRest \o DrainTail)) =>
          /\ result' = "live"
          /\ as_slice(vec', mem') = DrainFront \o DrainRest \o DrainTail]_vars

\* C12: dropping a ThinVec or ThinPinVec of non-zero capacity tears down
\* each of the elements [0, len) exactly once and frees the block exactly
\* once, after the teardowns; dropping one of capacity zero tears down
\* nothing and frees nothing.
C12_VecDrop ==
    run.kind = "vec" =>
        /\ run.sentinel # "freed"
        /\ result \in {"dropping", "dropped"} =>
              IF vec.cap # 0
                 THEN /\ Slots(vec.len) \subseteq DOMAIN teardowns
                      /\ \A i \in DOMAIN teardowns :
                            teardowns[i] = IF i < vec.len THEN 1 ELSE 0
                      /\ run.freed = IF result = "dropped" THEN 1 ELSE 0
                 ELSE /\ \A i \in DOMAIN teardowns : teardowns[i] = 0
                      /\ run.freed = 0

PolicyCapacity(additional) ==
    Max(Max(vec.len + additional, 2 * vec.cap), min_capacity)

Grew == run.kind = "vec" /\ vec.T.size # 0 /\ run'.growth.path # "none"

\* C14: whenever reserve or emplace grows a vector of non-zero-sized
\* elements, the first allocation included, the capacity afterwards is at
\* least max(len + additional, 2 x the previous capacity, 4).
C14_GrowthPolicy ==
    [][/\ \A additional \in 0..MaxRequest :
             (Grew /\ VReserve(additional)) => vec'.cap >= PolicyCapacity(additional)
       /\ (Grew /\ \E val \in Elems, r \in Fallible :
                      VEmplace(val, r) \/ VTryEmplace(val, r))
             => vec'.cap >= PolicyCapacity(1)]_vars

\* a vector of zero-sized elements made by new(), never given a block
ZeroSizedNew == run.kind = "vec" /\ vec.T.size = 0 /\ run.origin = "new"

\* C15: for a zero-sized element type new() reports length 0 and unlimited
\* capacity, emplace succeeds without allocating (the length counts the
\* emplaced values), and no call writes to or frees the static sentinel.
C15_ZeroSizedSentinel ==
    ZeroSizedNew =>
        /\ capacity(vec) = usize_MAX
        /\ run.sentinel = "intact"
        /\ run.pure => vec.len = Len(log) /\ result = "live"

\* C16: when the Drain of drain(a..b) is leaked with mem::forget, the vector
\* has len() == a and as_slice() is the first a elements it held before the
\* call: no drained element and no tail element is reachable through it.
C16_LeakedDrain ==
    [][VDrainForget =>
          /\ result' = "live"
          /\ vec'.len = run.drained.a
          /\ as_slice(vec', mem') = run.drained.front]_vars

C16_Witness ==
    /\ run.kind = "vec" /\ run.drained.leaked
    /\ run.drained.a = 1 /\ run.drained.b = 3
    /\ run.drained.len = 4
    /\ vec.len = 1
    /\ as_slice(vec, mem) = run.drained.front
    /\ \A i \in 1..(vec.cap - 1) : mem[i] = Raw

(***************************************************************************)
(* Properties of the owning handles (SpecH).                               *)
(***************************************************************************)
InSlice(i) == run.slice.start <= i /\ i < run.slice.start + run.slice.len

\* C17: the value held by an Init or PinInit is torn down exactly once when
\* the handle is dropped, and not at all by a handle that take_ownership,
\* into_raw, into_inner or pin consumed; pin hands the one teardown to the
\* PinInit, which points at the same value with its bytes unchanged.
C17_HandleTeardown ==
    run.kind = "handle" =>
        /\ \A i \in DOMAIN teardowns :
              teardowns[i] = IF result = "dropped" /\ InSlice(i) THEN 1 ELSE 0
        /\ \A k \in DOMAIN log : log[k] \notin run.consumed
        /\ Len(log) = IF result = "dropped" THEN 1 ELSE 0
        /\ result = "live" /\ run.ptr \in HandleKinds =>
              handle = run.slice /\ mem = run.orig
        /\ result = "moved" => run.value = run.orig[run.slice.start]

C17_Witness ==
    /\ run.kind = "handle" /\ result = "dropped"
    /\ run.first = "Init" /\ run.pinned /\ run.ptr = "PinInit"
    /\ run.consumed = {1} /\ log = <<2>>
    /\ run.slice = [start |-> 1, len |-> 2]
    /\ \A i \in DOMAIN teardowns : teardowns[i] = IF InSlice(i) THEN 1 ELSE 0

\* C18: each slice move, take and clone constructor, pinned or not, takes
\* its bulk-copy path only when the flag for that same operation is set,
\* and otherwise constructs element by element.
C18_BulkCopyOnlyWhenTrivial ==
    (run.kind \in Kinds /\ run.how # "none") =>
        (run.how = "bulk" <=> run.flags[run.kind])

(***************************************************************************)
(* Properties of the heap constructors (SpecB).                            *)
(***************************************************************************)
Boxed == run.kind = "boxed" /\ result = "Box"

\* C19: for every request for which is_zeroed returns true, the bytes the
\* zeroed allocation leaves are the bytes the skipped constructor would
\* have written.
C19_ZeroFillShortcut ==
    (Boxed /\ run.zeroed) =>
        \A i \in DOMAIN mem : mem[i] = scalar_init(run.ty, run.arg)

\* C20: CopyArgsLen(n, v) through boxed, pin_boxed or ThinBox::new gives a
\* slice of length n whose every element is v (zero for ()), on the
\* zero-fill shortcut and on the element-by-element loop alike.
C20_CopyArgsLenOnHeap ==
    Boxed =>
        /\ handle = [start |-> 0, len |-> run.n]
        /\ DOMAIN mem = Slots(run.n)
        /\ \A i \in Slots(run.n) : mem[i] = scalar_init(run.ty, run.arg)

\* C21: try_boxed_with and try_pin_boxed_with never call the allocator for a
\* layout of size 0 and use the address equal to the layout's alignment;
\* for a non-zero size they call the allocator exactly once.
C21_ZeroSizeNeverAllocates ==
    (run.kind = "boxed" /\ result # "called") =>
        IF layout_size(run.entry, run.ty, run.n) = 0
           THEN /\ run.allocs = 0
                /\ run.ptr = layout_align(run.entry, run.ty)
                /\ run.block = "dangling"
           ELSE run.allocs = 1

C21_Witness ==
    /\ Boxed
    /\ run.ty = "f32" /\ run.n = 0 /\ run.entry = "pin_boxed"
    /\ run.allocs = 0 /\ run.ptr = 4

\* C25: when the constructor fails inside try_boxed_with or
\* try_pin_boxed_with the call returns InitError with that error, and the
\* heap block it allocated has been deallocated.
C25_InitErrorFreesBlock ==
    (run.kind = "boxed" /\ result = "InitError") =>
        /\ run.error \in Errs
        /\ run.block # "heap"
        /\ run.deallocs = run.allocs

(***************************************************************************)
(* Properties of the composite layout providers (SpecP).                   *)
(***************************************************************************)
\* C22: for WithHeader, Mutex with default arguments and Mutex with NewMutex
\* arguments, layout_of is the first field's layout extended by the next
\* field's, the size rounded up to the combined alignment: the size and
\* alignment the constructed value reports when it is deallocated.
C22_CompositeLayout ==
    (run.kind = "layout" /\ result = "dropped") =>
        /\ run.out.align = Max(run.first.align, run.value.align)
        /\ run.out.size % run.out.align = 0
        /\ run.out = run.freed

(***************************************************************************)
(* Properties of the thin pointer (SpecT).                                 *)
(***************************************************************************)
ThinUsed == run.kind = "thin" /\ run.readat # Unset /\ run.vptr # Unset

\* C23 (as stated): the metadata lies immediately before the value bytes,
\* the thin handle stores the address of the value bytes, and the metadata
\* is read at a negative offset from the stored address.
C23_HandleStoresValueAddress ==
    ThinUsed =>
        /\ run.raw = run.vptr
        /\ run.readat = run.raw - run.meta.size
        /\ run.read = run.len

\* C23 (amended): the metadata lies at the start of the block and the value
\* bytes follow it in the same block, after padding to the value's
\* alignment; the thin handle stores the address of the block, that is of
\* the metadata, which is read at offset 0, and the value is found at a
\* non-negative offset from the stored address.
C23_HandleStoresBlockAddress ==
    ThinUsed =>
        /\ run.raw = run.base
        /\ run.readat = run.raw
        /\ run.read = run.len
        /\ run.vptr = run.raw + pad_to_align(run.meta.size, run.value.align)
        /\ run.vptr >= run.raw + run.meta.size
        /\ run.vptr % run.value.align = 0

C23_Witness ==
    /\ ThinUsed
    /\ run.meta = Layout(8, 8) /\ run.value = Layout(16, 16) /\ run.len = 2
    /\ run.raw = run.base /\ run.read = 2
    /\ run.vptr = run.base + 16

(***************************************************************************)
(* Properties of try_stack_init / try_stack_pin_init (SpecS).              *)
(***************************************************************************)
\* C24: the closure is called at most once, only after the constructor
\* returned successfully, and is handed the constructed value; if the
\* constructor fails the closure is never called and the constructor's
\* error is what the function returns.
C24_ClosureAfterSuccess ==
    run.kind = "stack" =>
        /\ run.calls <= 1
        /\ run.calls = 1 => (run.ctor = "ok" /\ run.passed = run.args)
        /\ run.ctor \in Errs => (run.calls = 0 /\ result \in {"Err", "returned"})
        /\ (run.ctor \in Errs /\ result = "returned") =>
               run.out = [tag |-> "Err", err |-> run.ctor]
        /\ (run.ctor = "ok" /\ result = "returned") =>
               (run.calls = 1 /\ run.out = [tag |-> "Ok", val |-> run.args])

C24_Witness ==
    /\ run.kind = "stack" /\ run.pin /\ result = "returned"
    /\ run.ctor = "ok" /\ run.calls = 1 /\ run.passed = run.args

C24_WitnessFailure ==
    /\ run.kind = "stack" /\ ~run.pin /\ result = "returned"
    /\ run.ctor = "E2" /\ run.calls = 0 /\ run.out = [tag |-> "Err", err |-> "E2"]

(***************************************************************************)
(* Teardown accounting across a Drain (SpecV).                             *)
(***************************************************************************)
\* how many slots of sq hold the element e
Occurrences(sq, e) == Cardinality({i \in DOMAIN sq : sq[i] = e})

\* C26: over any sequence of emplace, pop, reserve and drain on a ThinVec
\* followed by the drop of the vector, every element ever constructed is torn
\* down exactly once.  The vector's drop tears down as_slice(); so when a
\* Drain is dropped the slice the vector holds afterwards must be, element
\* for element, what was not yet torn down: the part before the range, the
\* elements of the range not yielded, and the tail.
C26_EveryElementTornDownOnce ==
    [][(VDrainDrop /\ vec.T.size # 0 /\ result' = "live") =>
          \A e \in Elems :
              Occurrences(as_slice(vec', mem'), e) =
                  Occurrences(Segment(mem, 0, vec.len), e)
                  + Occurrences(Segment(mem, vec.drain.front,
                                        vec.drain.back - vec.drain.front), e)
                  + Occurrences(Segment(mem, vec.drain.tail_offset,
                                        vec.drain.tail_len), e)]_vars

(***************************************************************************)
(* Postcondition of reserve (SpecV).                                       *)
(***************************************************************************)
\* C27: after reserve(additional) returns on a ThinVec or ThinPinVec of a
\* non-zero-sized T, capacity() - len() >= additional and len() and the
\* elements are what they were, so a following emplace constructs inside the
\* allocated storage.
C27_ReserveMakesRoom ==
    (run.kind = "vec" /\ run.reserved # NoReserved) =>
        /\ capacity(vec) >= vec.len + run.reserved.additional
        /\ run.reserved.kept

(***************************************************************************)
(* A failed try_emplace (SpecV).                                           *)
(***************************************************************************)
\* C28: if the constructor passed to ThinPinVec::try_emplace fails, its
\* error is returned, len() and the elements are what they were before the
\* call, and the capacity is not smaller than before the call.
C28_FailedTryEmplace ==
    (run.kind = "vec" /\ run.returned.ctor \in Errs) =>
        /\ result = "live"
        /\ run.returned.res = run.returned.ctor
        /\ run.returned.kept
        /\ run.returned.room

C28_Witness ==
    /\ run.kind = "vec" /\ vec.kind = "ThinPinVec"
    /\ run.returned.ctor = "E1" /\ run.returned.res = "E1"
    /\ run.growth.path = "move"
    /\ vec.len = 2 /\ vec.cap = 4
    /\ Initialized(as_slice(vec, mem))

(***************************************************************************)
(* The assertion in ThinPinVec::reserve_realloc (SpecV).                   *)
(***************************************************************************)
\* C29: the assertion new_capacity >= capacity in ThinPinVec::reserve_realloc
\* holds on every call.
C29_ReallocAssertion ==
    run.kind = "vec" => run.asserted # "failed"

(***************************************************************************)
(* Properties of try_init_struct! / try_pin_init_struct! (SpecM).          *)
(***************************************************************************)
\* C30: the fields are constructed in the order they are written; if the
\* constructor of the k-th field fails its error is returned, no later
\* field is constructed, and each field already constructed is torn down
\* exactly once.
C30_StructFieldsInOrder ==
    run.kind = "struct" =>
        /\ \A i \in DOMAIN log : log[i].slot = i - 1
        /\ \A i \in DOMAIN log : i < Len(log) => log[i].res = "ok"
        /\ result = "Err" =>
              /\ log[Len(log)].res \in Errs
              /\ run.out = log[Len(log)].res
              /\ run.k = Len(log) - 1
              /\ \A i \in Slots(run.n) :
                    /\ teardowns[i] = IF i < run.k THEN 1 ELSE 0
                    /\ mem[i] = Raw
        /\ result \in {"building", "Init"} =>
              \A i \in Slots(run.n) :
                  /\ teardowns[i] = 0
                  /\ mem[i] = IF i < run.k THEN log[i + 1].val ELSE Raw

C30_Witness ==
    /\ run.kind = "struct" /\ run.pin /\ run.n = 3
    /\ result = "Err" /\ run.out = "E2"
    /\ Len(log) = 3
    /\ teardowns = [i \in Slots(3) |-> IF i < 2 THEN 1 ELSE 0]

====
